---- MODULE Spec2Model ----
(***************************************************************************)
(* The semantic retrieval engine of the support-chat backend               *)
(* (src/app/rag_engine.py, class RAGEngine) as a state machine.            *)
(*                                                                         *)
(* State: the engine's two fields (self.index, self.faqs), the two         *)
(* persisted artifacts (index blob and entries pickle), the two source     *)
(* files, and one record per caller thread holding the position inside the *)
(* method it is executing and that method's locals.  Every method is cut   *)
(* at the statements that read or write shared state, so that two callers  *)
(* of the process-wide engine interleave as threads of one interpreter do. *)
(*                                                                         *)
(* Vectors are two-dimensional integer vectors; a unit vector has length   *)
(* Scale, so an inner product of two unit vectors is a cosine times        *)
(* Scale * Scale.                                                          *)
(***************************************************************************)
EXTENDS Integers, Sequences, FiniteSets, TLC

(***************************************************************************)
(* Bounds of the model.                                                    *)
(***************************************************************************)
MaxCalls == 4       \* calls made on the engine by a single caller
MaxFaults == 2      \* I/O faults, artifact removals and restarts, single caller
MaxConcCalls == 2   \* calls made on the engine by two concurrent callers
MaxConcFaults == 1  \* I/O faults, artifact removals and restarts, concurrent callers
MaxK == 3           \* largest k passed to search directly
MaxPathCalls == 3   \* calls made on an engine configured with some index_path
MaxPathFaults == 1  \* I/O faults, removals and restarts on such an engine
MaxChats == 4       \* chat and reset requests served by the agent

Threads == {1, 2}

(***************************************************************************)
(* Values.                                                                 *)
(***************************************************************************)
None == "None"          \* Python's None
Absent == "Absent"      \* no file at the path
Corrupt == "Corrupt"    \* a file that cannot be read back (truncated, damaged)
Missing == "Missing"    \* a source file that is absent or not valid JSON
Ok == "Ok"              \* a file that reads back as what was written

\* data/faqs.json: {question, answer, category}
\* Texts are tuples of words, so that a text can be put together from parts.
Faq1 == [question |-> <<"How do refunds work?">>, answer |-> <<"Refunds post in 3-5 days.">>,
         category |-> "refunds", order_id |-> "none"]
Faq2 == [question |-> <<"How do I track my order?">>, answer |-> <<"Use the order id.">>,
         category |-> "orders", order_id |-> "none"]

\* data/order_database.json: one order record
Order1 == [order_id |-> "FD123456789", customer_name |-> "John", restaurant |-> "Pizza Palace",
           items |-> <<[name |-> "Pizza", quantity |-> "2"]>>, total_amount |-> "25",
           status |-> "delivered", delivery_address |-> "Main St"]

\* a source file: its state and, when it is Ok, the records it holds
SourceFile(state, data) == [state |-> state, data |-> data]

FaqSources == {SourceFile(Missing, <<>>), SourceFile(Ok, <<Faq1, Faq2>>)}
OrderSources == {SourceFile(Missing, <<>>), SourceFile(Ok, <<Order1>>)}

Queries == {<<"refund time">>, <<"where is my order">>}

(***************************************************************************)
(* Paths.  A path is a tuple of pieces, cut so that ".bin" is a piece      *)
(* wherever it occurs in the path.                                         *)
(***************************************************************************)
\* line 13: index_path: str = "data/faiss_index.bin"
DefaultIndexPath == <<"data/faiss_index", ".bin">>

\* paths an engine may be constructed with
IndexPaths == {DefaultIndexPath, <<"data/faiss_index", ".idx">>}

\* str.replace(old, new): every occurrence of old becomes new
replace(path, old, new) == [i \in 1..Len(path) |-> IF path[i] = old THEN new ELSE path[i]]

\* lines 109 and 121: self.index_path.replace('.bin', '_faqs.pkl')
faq_data_path(path) == replace(path, ".bin", "_faqs.pkl")

(***************************************************************************)
(* load_order_data: one entry per order record, in source order.           *)
(***************************************************************************)
ItemsText(items) == [i \in 1..Len(items) |-> <<items[i].name, "(x", items[i].quantity, ")">>]

OrderFaq(order) ==
    [question |-> <<"Order", order.order_id, "details">>,
     answer |-> <<"Order ID:", order.order_id, "Customer:", order.customer_name,
                  "Restaurant:", order.restaurant, "Items:", ItemsText(order.items),
                  "Total: $", order.total_amount, "Status:", order.status,
                  "Delivery Address:", order.delivery_address>>,
     category |-> "order_data",
     order_id |-> order.order_id]

load_order_data(src) ==
    IF src.state = Missing THEN <<>>
    ELSE [i \in 1..Len(src.data) |-> OrderFaq(src.data[i])]

(***************************************************************************)
(* The text encoder (SentenceTransformer.encode) and faiss.normalize_L2.   *)
(***************************************************************************)
Scale == 5          \* length of a unit vector
MaxNorm == 10       \* largest length of a raw encoder output

Dot(u, v) == u[1] * v[1] + u[2] * v[2]

Norm(v) == CHOOSE n \in 0..MaxNorm : n * n = Dot(v, v)

\* the text that is embedded for an entry: f"{faq['question']} {faq['answer']}"
CombinedText(faq) == <<faq.question, faq.answer>>

\* raw (not normalised) encoder output of a text
encode(text) ==
    CASE text = CombinedText(Faq1) -> <<6, 8>>
      [] text = CombinedText(Faq2) -> <<3, -4>>
      [] text = CombinedText(OrderFaq(Order1)) -> <<0, 10>>
      [] text = <<"refund time">> -> <<10, 0>>
      [] text = <<"where is my order">> -> <<0, -5>>
      [] OTHER -> <<5, 0>>

normalize_L2(v) ==
    IF Norm(v) = 0 THEN v
    ELSE <<(v[1] * Scale) \div Norm(v), (v[2] * Scale) \div Norm(v)>>

\* lines 72-78: the raw embeddings of the entries, in entry order
EncodeAll(entries) == [i \in 1..Len(entries) |-> encode(CombinedText(entries[i]))]

\* lines 90-93: the rows added to the index
NormalizeAll(embeddings) == [i \in 1..Len(embeddings) |-> normalize_L2(embeddings[i])]

\* the rows of an index built from these entries
RowsOf(entries) == NormalizeAll(EncodeAll(entries))

(***************************************************************************)
(* faiss IndexFlatIP.search(query, k): k slots, best inner product first.  *)
(* A slot with no row left to fill it has label -1 and score -FLT_MAX.     *)
(* Which of two rows with equal score comes first depends on the build of  *)
(* the library: tb is "low" (lower row first) or "high".                   *)
(***************************************************************************)
FLT_MAX == 340
PadScore == -FLT_MAX

TieOrders == {"low", "high"}

Better(tb, s1, i1, s2, i2) ==
    \/ s1 > s2
    \/ s1 = s2 /\ (IF tb = "low" THEN i1 < i2 ELSE i1 > i2)

RECURSIVE TopRows(_, _, _, _)
TopRows(sc, remaining, n, tb) ==
    IF n = 0 \/ remaining = {} THEN <<>>
    ELSE LET best == CHOOSE i \in remaining :
                        \A j \in remaining \ {i} : Better(tb, sc[i], i, sc[j], j)
         IN <<best>> \o TopRows(sc, remaining \ {best}, n - 1, tb)

index_search(rows, qv, k, tb) ==
    LET sc == [i \in 1..Len(rows) |-> Dot(rows[i], qv)]
        top == TopRows(sc, 1..Len(rows), k, tb)
    IN [j \in 1..k |-> IF j <= Len(top)
                         THEN [idx |-> top[j] - 1, score |-> sc[top[j]]]
                         ELSE [idx |-> -1, score |-> PadScore]]

(***************************************************************************)
(* Python list indexing: a negative index counts from the end.             *)
(***************************************************************************)
PyInRange(list, i) == IF i >= 0 THEN i < Len(list) ELSE -i <= Len(list)

PyGet(list, i) == IF i >= 0 THEN list[i + 1] ELSE list[Len(list) + i + 1]

(***************************************************************************)
(* search, lines 149-154: the loop that maps the hits to entries.          *)
(***************************************************************************)
\* line 151: the test that lets a hit through
Kept(hit, entries) == hit.idx < Len(entries)

\* line 152 raises IndexError on a hit that passed the test and is no index of the list
MapRaises(hits, entries) ==
    \E j \in 1..Len(hits) : Kept(hits[j], entries) /\ ~PyInRange(entries, hits[j].idx)

RECURSIVE MapHits(_, _)
MapHits(hits, entries) ==
    IF hits = <<>> THEN <<>>
    ELSE LET h == Head(hits)
         IN (IF Kept(h, entries) /\ PyInRange(entries, h.idx)
               THEN <<[faq |-> PyGet(entries, h.idx), score |-> h.score, row |-> h.idx]>>
               ELSE <<>>)
            \o MapHits(Tail(hits), entries)

(***************************************************************************)
(* get_relevant_faqs, lines 158-167.  A threshold is given in tenths.      *)
(***************************************************************************)
RelevantK == 5
Thresholds == {3, 9}

\* the comparison the other way round
AtMost(score, threshold) == score * 10 <= threshold * Scale * Scale

\* line 162: score >= threshold
AtLeast(score, threshold) == score * 10 >= threshold * Scale * Scale

RECURSIVE FilterRelevant(_, _)
FilterRelevant(results, threshold) ==
    IF results = <<>> THEN <<>>
    ELSE LET r == Head(results)
         IN (IF AtLeast(r.score, threshold)
               THEN <<[faq |-> r.faq, similarity_score |-> r.score, row |-> r.row]>>
               ELSE <<>>)
            \o FilterRelevant(Tail(results), threshold)

\* the stored entries when the score is written into the entry itself
Marked(entries, relevant) ==
    [i \in 1..Len(entries) |->
        IF \E j \in 1..Len(relevant) : relevant[j].row = i - 1
          THEN LET j == CHOOSE j \in 1..Len(relevant) : relevant[j].row = i - 1
               IN [similarity_score |-> relevant[j].similarity_score] @@ entries[i]
          ELSE entries[i]]

\* lines 163-164: the score is attached to faq.copy(), so the stored entries stay as
\* they are
Copied(entries, relevant) == entries

(***************************************************************************)
(* State.                                                                  *)
(***************************************************************************)
VARIABLES
    index,      \* self.index: [isNone, rows]; rows are the vectors of the faiss index
    faqs,       \* self.faqs: the list of entries
    diskIndex,  \* the file at index_path: [state, kind, data, sid]
    diskFaqs,   \* the file at the derived path, when that is another path
    faqSrc,     \* data/faqs.json
    orderSrc,   \* data/order_database.json
    tieBreak,   \* the tie order of the faiss build in use
    index_path, \* self.index_path
    th,         \* per thread: the call it is in, its position and its locals
    ready,      \* an initialize() call has returned normally on this engine
    calls,      \* calls that may still be made
    saves,      \* save_index executions that reached the first write so far
    faults,     \* faults, removals and restarts that may still happen
    saved,      \* the pair that was in memory when the last save_index completed
    conversation_history,   \* the agent's self.conversation_history
    demo_mode,  \* main.py: the agent serving requests is the demo agent
    chats,      \* chat and reset requests that may still be served
    lastCall    \* the last request the agent served, and what it saw

world == <<faqSrc, orderSrc, tieBreak, index_path>>     \* fixed in a behaviour

\* the state of the agent in front of the engine
agent == <<conversation_history, demo_mode, chats, lastCall>>

vars == <<index, faqs, diskIndex, diskFaqs, faqSrc, orderSrc, tieBreak, index_path, th,
          ready, calls, saves, faults, saved, conversation_history, demo_mode, chats,
          lastCall>>

NoIndex == [isNone |-> TRUE, rows |-> <<>>]
IndexOf(rows) == [isNone |-> FALSE, rows |-> rows]

NoFile == [state |-> Absent, kind |-> "none", data |-> <<>>, sid |-> 0]
BadFile == [state |-> Corrupt, kind |-> "none", data |-> <<>>, sid |-> 0]
\* a writer that loses the last record of what it is given
FileWithoutLast(kind, data, sid) ==
    [state |-> Ok, kind |-> kind, data |-> SubSeq(data, 1, Len(data) - 1), sid |-> sid]

\* a file written whole: a faiss index ("index") or a pickled list ("pickle")
File(kind, data, sid) == [state |-> Ok, kind |-> kind, data |-> data, sid |-> sid]

\* the entries are written to the very file that holds the index
SamePath == faq_data_path(index_path) = index_path

\* the file at the derived path
EntriesFile == IF SamePath THEN diskIndex ELSE diskFaqs

\* no save_index has completed
NothingSaved == [sid |-> 0, rows |-> <<>>, faqs |-> <<>>]

\* no request has been served
NoCall == [op |-> "none", session_id |-> "none", before |-> <<>>, context |-> <<>>]

\* the agent while the engine alone is exercised: it holds no history and serves nothing
AgentIdle ==
    /\ conversation_history = <<>>      \* demo_agent.py line 14, gemini_agent.py line 18
    /\ demo_mode = FALSE                \* main.py line 32
    /\ chats = 0
    /\ lastCall = NoCall

\* a thread that is in no call and has made none
Idle ==
    [pc |-> "idle", op |-> "none", q |-> <<>>, k |-> 0, threshold |-> 0,
     embeddings |-> <<>>, hits |-> <<>>, sid |-> 0,
     ret |-> None, exc |-> "none", result |-> <<>>,
     \* what the call saw and did, kept for the properties
     preIndex |-> NoIndex, preFaqs |-> <<>>, preReady |-> FALSE,
     built |-> FALSE, wrote |-> FALSE, loadedIndexSid |-> 0, loadedFaqsSid |-> 0,
     seenRows |-> <<>>, seenFaqs |-> <<>>, overlap |-> FALSE, found |-> <<>>]

BuildPcs == {"build_load_faqs", "build_orders", "build_encode", "build_new_index", "build_add"}
SavePcs == {"save_write_index", "save_write_faqs"}
LoadPcs == {"load_read_index", "load_read_faqs"}

Init ==
    /\ index = NoIndex                  \* line 17
    /\ faqs = <<>>                      \* line 18
    /\ diskIndex = NoFile
    /\ diskFaqs = NoFile
    /\ faqSrc \in FaqSources
    /\ orderSrc \in OrderSources
    /\ tieBreak \in TieOrders
    /\ index_path = DefaultIndexPath     \* line 177: RAGEngine()
    /\ th = [t \in Threads |-> Idle]
    /\ ready = FALSE
    /\ calls = MaxConcCalls
    /\ saves = 0
    /\ faults = MaxConcFaults
    /\ saved = NothingSaved
    /\ AgentIdle

\* a single caller
SeqInit ==
    /\ index = NoIndex
    /\ faqs = <<>>
    /\ diskIndex = NoFile
    /\ diskFaqs = NoFile
    /\ faqSrc \in FaqSources
    /\ orderSrc \in OrderSources
    /\ tieBreak \in TieOrders
    /\ index_path = DefaultIndexPath     \* line 177: RAGEngine()
    /\ th = [t \in Threads |-> Idle]        \* the second thread makes no call
    /\ ready = FALSE
    /\ calls = MaxCalls
    /\ saves = 0
    /\ faults = MaxFaults
    /\ saved = NothingSaved
    /\ AgentIdle

\* a single caller of an engine constructed with any of the paths
PathInit ==
    /\ index = NoIndex
    /\ faqs = <<>>
    /\ diskIndex = NoFile
    /\ diskFaqs = NoFile
    /\ faqSrc \in FaqSources
    /\ orderSrc \in OrderSources
    /\ tieBreak \in TieOrders
    /\ index_path \in IndexPaths         \* line 15
    /\ th = [t \in Threads |-> Idle]
    /\ ready = FALSE
    /\ calls = MaxPathCalls
    /\ saves = 0
    /\ faults = MaxPathFaults
    /\ saved = NothingSaved
    /\ AgentIdle

(***************************************************************************)
(* Calls and returns.                                                      *)
(***************************************************************************)
\* the record of thread t as it enters method op at position pc
Enter(t, op, pc, q, k, threshold) ==
    [Idle EXCEPT !.pc = pc, !.op = op, !.q = q, !.k = k, !.threshold = threshold,
                 !.preIndex = index, !.preFaqs = faqs, !.preReady = ready]

\* the record me as its call returns ret, or raises exc
Return(me, ret, exc) ==
    [me EXCEPT !.pc = "idle", !.ret = ret, !.exc = exc,
               !.embeddings = <<>>, !.hits = <<>>]

\* where the caller goes on after load_index has returned ok (lines 137, 171)
AfterLoad(me, ok) ==
    IF me.op = "load_index" THEN Return(me, IF ok THEN "True" ELSE "False", "none")
    ELSE IF ~ok THEN [me EXCEPT !.pc = "build_load_faqs"]
    ELSE IF me.op = "initialize" THEN Return(me, None, "none")
    ELSE [me EXCEPT !.pc = "query"]

\* where the caller goes on after build_index has returned (lines 139-140, 173-174)
AfterBuild(me) ==
    IF me.op = "build_index" THEN Return(me, "index", "none")
    ELSE [me EXCEPT !.pc = "save_write_index"]

\* where the caller goes on after save_index has returned (lines 140-142, 174-175)
AfterSave(me) ==
    IF me.op \in {"save_index", "initialize"} THEN Return(me, None, "none")
    ELSE [me EXCEPT !.pc = "query"]

\* initialize() returning normally makes the engine Ready
ReadyAfter(me2) == ready \/ (me2.pc = "idle" /\ me2.op = "initialize" /\ me2.exc = "none")

MayCall(t) == calls > 0

\* The arguments a call may be given: the queries, the values of k and the thresholds.
Args(queries, ks, thresholds) == [queries |-> queries, ks |-> ks, thresholds |-> thresholds]

\* A single caller passes any of them; concurrent callers pass what the tool layer
\* passes (src/app/tools.py line 176) and the default k of search (line 134).
DefaultK == 3
DefaultThreshold == 3
AnyArgs == Args(Queries, 1..MaxK, Thresholds)
ToolArgs == Args({<<"refund time">>}, {DefaultK}, {DefaultThreshold})

CallInitialize(t) ==
    /\ th[t].pc = "idle" /\ MayCall(t)
    /\ th' = [th EXCEPT ![t] = Enter(t, "initialize", "load_read_index", <<>>, 0, 0)]
    /\ calls' = calls - 1
    /\ UNCHANGED <<index, faqs, diskIndex, diskFaqs, world, agent, ready, saves,
                   faults, saved>>

CallLoadIndex(t) ==
    /\ th[t].pc = "idle" /\ MayCall(t)
    /\ th' = [th EXCEPT ![t] = Enter(t, "load_index", "load_read_index", <<>>, 0, 0)]
    /\ calls' = calls - 1
    /\ UNCHANGED <<index, faqs, diskIndex, diskFaqs, world, agent, ready, saves,
                   faults, saved>>

CallBuildIndex(t) ==
    /\ th[t].pc = "idle" /\ MayCall(t)
    /\ th' = [th EXCEPT ![t] = Enter(t, "build_index", "build_load_faqs", <<>>, 0, 0)]
    /\ calls' = calls - 1
    /\ UNCHANGED <<index, faqs, diskIndex, diskFaqs, world, agent, ready, saves,
                   faults, saved>>

CallSaveIndex(t) ==
    /\ th[t].pc = "idle" /\ MayCall(t)
    /\ th' = [th EXCEPT ![t] = Enter(t, "save_index", "save_write_index", <<>>, 0, 0)]
    /\ calls' = calls - 1
    /\ UNCHANGED <<index, faqs, diskIndex, diskFaqs, world, agent, ready, saves,
                   faults, saved>>

\* search(q, k), line 136: load (and build) first when there is no index
CallSearch(t, args) ==
    /\ th[t].pc = "idle" /\ MayCall(t)
    /\ \E q \in args.queries, k \in args.ks :
          th' = [th EXCEPT ![t] =
                    Enter(t, "search", IF index.isNone THEN "load_read_index" ELSE "query",
                          q, k, 0)]
    /\ calls' = calls - 1
    /\ UNCHANGED <<index, faqs, diskIndex, diskFaqs, world, agent, ready, saves,
                   faults, saved>>

\* get_relevant_faqs(q, threshold), line 158: search(q, k=5)
CallGetRelevantFaqs(t, args) ==
    /\ th[t].pc = "idle" /\ MayCall(t)
    /\ \E q \in args.queries, threshold \in args.thresholds :
          th' = [th EXCEPT ![t] =
                    Enter(t, "get_relevant_faqs",
                          IF index.isNone THEN "load_read_index" ELSE "query",
                          q, RelevantK, threshold)]
    /\ calls' = calls - 1
    /\ UNCHANGED <<index, faqs, diskIndex, diskFaqs, world, agent, ready, saves,
                   faults, saved>>

(***************************************************************************)
(* load_index, lines 115-132.                                              *)
(***************************************************************************)
\* line 118: self.index = faiss.read_index(self.index_path); any error (no file, or a
\* file that is no faiss index) returns False
LoadReadIndex(t) ==
    LET me == th[t] IN
    /\ me.pc = "load_read_index"
    /\ IF diskIndex.state = Ok /\ diskIndex.kind = "index"
         THEN /\ index' = IndexOf(diskIndex.data)
              /\ th' = [th EXCEPT ![t] = [me EXCEPT !.pc = "load_read_faqs",
                                                    !.loadedIndexSid = diskIndex.sid]]
         ELSE /\ index' = index
              /\ th' = [th EXCEPT ![t] = AfterLoad(me, FALSE)]
    /\ ready' = ReadyAfter(th'[t])
    /\ UNCHANGED <<faqs, diskIndex, diskFaqs, world, agent, calls, saves, faults, saved>>

\* lines 121-126: self.faqs = pickle.load(f) from the derived path; return True; any
\* error (no file, or a file that is no pickle) returns False
LoadReadFaqs(t) ==
    LET me == th[t] IN
    /\ me.pc = "load_read_faqs"
    /\ IF EntriesFile.state = Ok /\ EntriesFile.kind = "pickle"
         THEN /\ faqs' = EntriesFile.data
              /\ th' = [th EXCEPT ![t] =
                          AfterLoad([me EXCEPT !.loadedFaqsSid = EntriesFile.sid], TRUE)]
         ELSE /\ faqs' = faqs
              /\ th' = [th EXCEPT ![t] = AfterLoad(me, FALSE)]
    /\ ready' = ReadyAfter(th'[t])
    /\ UNCHANGED <<index, diskIndex, diskFaqs, world, agent, calls, saves, faults, saved>>

(***************************************************************************)
(* create_embeddings and build_index, lines 62-96.                         *)
(***************************************************************************)
\* load_faqs, lines 21-33: self.faqs is assigned only when the file parses
load_faqs(current, src) == IF src.state = Ok THEN src.data ELSE current

\* lines 64-65: if not self.faqs: self.load_faqs().  load_faqs handles a file that is
\* absent or not JSON (lines 28-33); any other error of open() or of the read (the file
\* is there and cannot be read) is not handled and leaves the build.
BuildLoadFaqs(t) ==
    LET me == th[t] IN
    /\ me.pc = "build_load_faqs"
    /\ \/ /\ faqs' = IF faqs = <<>> THEN load_faqs(faqs, faqSrc) ELSE faqs
          /\ th' = [th EXCEPT ![t] = [me EXCEPT !.pc = "build_orders", !.built = TRUE]]
          /\ UNCHANGED faults
       \/ /\ faqs = <<>> /\ faqSrc.state = Ok /\ faults > 0
          /\ faqs' = faqs
          /\ faults' = faults - 1
          /\ th' = [th EXCEPT ![t] = Return([me EXCEPT !.built = TRUE], None,
                                            "PermissionError")]
    /\ UNCHANGED <<index, diskIndex, diskFaqs, world, agent, ready, calls, saves, saved>>

\* lines 68-69: self.faqs.extend(self.load_order_data()); load_order_data handles the
\* same two errors as load_faqs (lines 55-60) and no other
BuildOrders(t) ==
    LET me == th[t] IN
    /\ me.pc = "build_orders"
    /\ \/ /\ faqs' = faqs \o load_order_data(orderSrc)
          /\ th' = [th EXCEPT ![t] = [me EXCEPT !.pc = "build_encode"]]
          /\ UNCHANGED faults
       \/ /\ orderSrc.state = Ok /\ faults > 0
          /\ faqs' = faqs
          /\ faults' = faults - 1
          /\ th' = [th EXCEPT ![t] = Return(me, None, "PermissionError")]
    /\ UNCHANGED <<index, diskIndex, diskFaqs, world, agent, ready, calls, saves, saved>>

\* lines 72-80: embeddings = self.model.encode(texts).  Of an empty batch the encoder
\* gives an array with no second axis, or it fails: either way no embeddings.
BuildEncode(t) ==
    LET me == th[t] IN
    /\ me.pc = "build_encode"
    /\ \/ /\ faqs # <<>>
          /\ th' = [th EXCEPT ![t] = [me EXCEPT !.pc = "build_new_index",
                                                !.embeddings = EncodeAll(faqs)]]
       \/ /\ faqs = <<>>
          /\ th' = [th EXCEPT ![t] = [me EXCEPT !.pc = "build_new_index"]]
       \/ /\ faqs = <<>>
          /\ th' = [th EXCEPT ![t] = Return(me, None, "EncodingFailure")]
    /\ UNCHANGED <<index, faqs, diskIndex, diskFaqs, world, agent, ready, calls, saves,
                   faults, saved>>

\* line 87: self.index = faiss.IndexFlatIP(self.dimension)
BuildNewIndex(t) ==
    LET me == th[t] IN
    /\ me.pc = "build_new_index"
    /\ index' = IndexOf(<<>>)
    /\ th' = [th EXCEPT ![t] = [me EXCEPT !.pc = "build_add"]]
    /\ UNCHANGED <<faqs, diskIndex, diskFaqs, world, agent, ready, calls, saves,
                   faults, saved>>

\* lines 90-96: normalize_L2(embeddings); self.index.add(embeddings).
\* normalize_L2 reads the second axis of the array and raises IndexError without one.
BuildAdd(t) ==
    LET me == th[t] IN
    /\ me.pc = "build_add"
    /\ IF me.embeddings = <<>>
         THEN /\ index' = index
              /\ th' = [th EXCEPT ![t] = Return(me, None, "IndexError")]
         ELSE /\ index' = IndexOf(index.rows \o NormalizeAll(me.embeddings))
              /\ th' = [th EXCEPT ![t] = AfterBuild(me)]
    /\ UNCHANGED <<faqs, diskIndex, diskFaqs, world, agent, ready, calls, saves,
                   faults, saved>>

(***************************************************************************)
(* save_index, lines 98-113.  A write that fails raises to the caller.     *)
(***************************************************************************)
\* lines 100-106: nothing to save without an index; else faiss.write_index
SaveWriteIndex(t) ==
    LET me == th[t] IN
    /\ me.pc = "save_write_index"
    /\ \/ /\ index.isNone
          /\ th' = [th EXCEPT ![t] = AfterSave(me)]
          /\ UNCHANGED <<diskIndex, saves, faults>>
       \/ /\ ~index.isNone
          /\ diskIndex' = File("index", index.rows, saves + 1)
          /\ saves' = saves + 1
          /\ th' = [th EXCEPT ![t] = [me EXCEPT !.pc = "save_write_faqs",
                                                !.sid = saves + 1, !.wrote = TRUE]]
          /\ UNCHANGED faults
       \/ /\ ~index.isNone /\ faults > 0
          \* the write stops part way (the file is left unreadable), or never starts
          /\ diskIndex' \in {BadFile, diskIndex}
          /\ faults' = faults - 1
          /\ th' = [th EXCEPT ![t] = Return([me EXCEPT !.wrote = (diskIndex' # diskIndex)],
                                            None, "OSError")]
          /\ UNCHANGED saves
    /\ ready' = ReadyAfter(th'[t])
    /\ UNCHANGED <<index, faqs, diskFaqs, world, agent, calls, saved>>

\* lines 109-113: pickle.dump(self.faqs, f) into the derived path
SaveWriteFaqs(t) ==
    LET me == th[t] IN
    /\ me.pc = "save_write_faqs"
    /\ \/ /\ IF SamePath
               THEN diskIndex' = File("pickle", faqs, me.sid) /\ diskFaqs' = diskFaqs
               ELSE diskFaqs' = File("pickle", faqs, me.sid) /\ diskIndex' = diskIndex
          /\ saved' = [sid |-> me.sid, rows |-> index.rows, faqs |-> faqs]
          /\ th' = [th EXCEPT ![t] = AfterSave(me)]
          /\ UNCHANGED faults
       \/ /\ faults > 0
          \* open() fails and leaves the file as it was, or the dump stops part way
          /\ IF SamePath
               THEN diskIndex' \in {BadFile, diskIndex} /\ diskFaqs' = diskFaqs
               ELSE diskFaqs' \in {BadFile, diskFaqs} /\ diskIndex' = diskIndex
          /\ faults' = faults - 1
          /\ th' = [th EXCEPT ![t] = Return(me, None, "OSError")]
          /\ UNCHANGED saved
    /\ ready' = ReadyAfter(th'[t])
    /\ UNCHANGED <<index, faqs, world, agent, calls, saves>>

(***************************************************************************)
(* search, lines 142-154, and get_relevant_faqs, lines 158-167.            *)
(***************************************************************************)
\* some other thread is inside the build_index of a load-else-build-and-save sequence
OtherBuilding(t) ==
    \E u \in Threads \ {t} :
        th[u].pc \in BuildPcs /\ th[u].op \in {"initialize", "search", "get_relevant_faqs"}

\* lines 142-146: encode and normalise the query, self.index.search(query, k)
Query(t) ==
    LET me == th[t] IN
    /\ me.pc = "query"
    /\ th' = [th EXCEPT ![t] =
                [me EXCEPT !.pc = "map",
                           !.hits = index_search(index.rows, normalize_L2(encode(me.q)),
                                                 me.k, tieBreak),
                           !.seenRows = index.rows,
                           !.overlap = OtherBuilding(t)]]
    /\ UNCHANGED <<index, faqs, diskIndex, diskFaqs, world, agent, ready, calls, saves,
                   faults, saved>>

\* lines 149-154: results; for get_relevant_faqs also lines 159-167
MapResults(t) ==
    LET me == th[t]
        results == MapHits(me.hits, faqs)
        seen == [me EXCEPT !.seenFaqs = faqs, !.overlap = me.overlap \/ OtherBuilding(t),
                           !.found = IF MapRaises(me.hits, faqs) THEN <<>> ELSE results]
    IN
    /\ me.pc = "map"
    /\ th' = [th EXCEPT ![t] =
                IF MapRaises(me.hits, faqs)
                  THEN Return(seen, None, "IndexError")
                  ELSE Return([seen EXCEPT !.result =
                                  IF me.op = "get_relevant_faqs"
                                    THEN FilterRelevant(results, me.threshold)
                                    ELSE results],
                              "list", "none")]
    /\ faqs' = IF me.op = "get_relevant_faqs" /\ ~MapRaises(me.hits, faqs)
                 THEN Copied(faqs, FilterRelevant(results, me.threshold))
                 ELSE faqs
    /\ UNCHANGED <<index, diskIndex, diskFaqs, world, agent, ready, calls, saves,
                   faults, saved>>

(***************************************************************************)
(* The environment: artifacts removed from disk, and the process           *)
(* restarted (a new engine object over the same disk, line 177).           *)
(***************************************************************************)
RemoveIndexArtifact ==
    /\ faults > 0 /\ diskIndex.state # Absent
    /\ diskIndex' = NoFile
    /\ faults' = faults - 1
    /\ UNCHANGED <<index, faqs, diskFaqs, world, agent, th, ready, calls, saves, saved>>

RemoveFaqsArtifact ==
    /\ faults > 0 /\ diskFaqs.state # Absent
    /\ diskFaqs' = NoFile
    /\ faults' = faults - 1
    /\ UNCHANGED <<index, faqs, diskIndex, world, agent, th, ready, calls, saves, saved>>

Restart ==
    /\ faults > 0 /\ \E t \in Threads : th[t].op # "none"
    /\ index' = NoIndex
    /\ faqs' = <<>>
    /\ th' = [t \in Threads |-> Idle]
    /\ ready' = FALSE
    /\ faults' = faults - 1
    /\ UNCHANGED <<diskIndex, diskFaqs, world, agent, calls, saves, saved>>

(***************************************************************************)
(* Specifications: Spec has two caller threads on the shared engine,       *)
(* SeqSpec a single caller making more calls.                              *)
(***************************************************************************)
Step(t, args) ==
    \/ CallInitialize(t)
    \/ CallLoadIndex(t)
    \/ CallBuildIndex(t)
    \/ CallSaveIndex(t)
    \/ CallSearch(t, args)
    \/ CallGetRelevantFaqs(t, args)
    \/ LoadReadIndex(t)
    \/ LoadReadFaqs(t)
    \/ BuildLoadFaqs(t)
    \/ BuildOrders(t)
    \/ BuildEncode(t)
    \/ BuildNewIndex(t)
    \/ BuildAdd(t)
    \/ SaveWriteIndex(t)
    \/ SaveWriteFaqs(t)
    \/ Query(t)
    \/ MapResults(t)

Env == RemoveIndexArtifact \/ RemoveFaqsArtifact \/ Restart

Next == (\E t \in Threads : Step(t, ToolArgs)) \/ Env

SeqNext == Step(1, AnyArgs) \/ Env

Spec == Init /\ [][Next]_vars

SeqSpec == SeqInit /\ [][SeqNext]_vars

\* a single caller of an engine constructed with any index_path
PathSpec == PathInit /\ [][SeqNext]_vars

(***************************************************************************)
(* The agent in front of the engine (src/app/demo_agent.py,                *)
(* src/app/gemini_agent.py) and the two endpoints of src/app/main.py that  *)
(* reach it.  The endpoints are coroutines that call the agent without     *)
(* awaiting anything, so a request is served in one step.  The agent is    *)
(* constructed after initialize() has returned, so the engine is Ready and *)
(* a chat, which only searches it, leaves it as it is.                     *)
(***************************************************************************)
Sessions == {"A", "B"}
Messages == {"track FD123456789", "how do refunds work"}

\* the variables of the engine
engine == <<index, faqs, diskIndex, diskFaqs, world, th, ready, calls, saves, faults, saved>>

\* an entry of conversation_history: {"role", "content"}.  session_id is the session of
\* the request that appended it, which the code does not store.
Turn(role, text, given, session_id) ==
    [role |-> role, content |-> [text |-> text, given |-> given], session_id |-> session_id]

\* history[-4:]
LastFour(history) ==
    IF Len(history) > 4 THEN SubSeq(history, Len(history) - 3, Len(history)) ELSE history

\* gemini_agent.py line 191: the part of the history put into the prompt, read after
\* the user's message has been appended; the demo agent reads none of it
Context(history, demo) ==
    IF demo THEN <<>>
    ELSE IF Len(history) > 1 THEN LastFour(history) ELSE <<>>

\* the reply: decided by the message and by the texts of the context in the prompt
Reply(message, context, session_id) ==
    Turn("assistant", message, [i \in 1..Len(context) |-> context[i].content.text],
         session_id)

\* chat(user_message, session_id): demo_agent.py lines 97-127, gemini_agent.py lines
\* 161-243.  When answering fails the user's message stays in the history.
Chat(session_id, message) ==
    LET asked == Append(conversation_history, Turn("user", message, <<>>, session_id))
        context == Context(asked, demo_mode)
    IN
    /\ chats > 0
    /\ \/ conversation_history' = Append(asked, Reply(message, context, session_id))
       \/ conversation_history' = asked
    /\ lastCall' = [op |-> "chat", session_id |-> session_id,
                    before |-> conversation_history, context |-> context]
    /\ chats' = chats - 1
    /\ UNCHANGED <<engine, demo_mode>>

\* reset_conversation(session_id): demo_agent.py lines 129-132, gemini_agent.py
\* lines 245-248
ResetConversation(session_id) ==
    /\ chats > 0
    /\ conversation_history' = <<>>
    /\ lastCall' = [op |-> "reset", session_id |-> session_id,
                    before |-> conversation_history, context |-> <<>>]
    /\ chats' = chats - 1
    /\ UNCHANGED <<engine, demo_mode>>

\* the process after its modules are imported: the engine is Ready, with the pair built
\* from the two sources saved, and the agent holds no history
ChatInit ==
    /\ faqSrc = SourceFile(Ok, <<Faq1, Faq2>>)
    /\ orderSrc = SourceFile(Ok, <<Order1>>)
    /\ tieBreak \in TieOrders
    /\ index_path = DefaultIndexPath
    /\ faqs = <<Faq1, Faq2>> \o load_order_data(orderSrc)
    /\ index = IndexOf(RowsOf(faqs))
    /\ diskIndex = File("index", index.rows, 1)
    /\ diskFaqs = File("pickle", faqs, 1)
    /\ saved = [sid |-> 1, rows |-> index.rows, faqs |-> faqs]
    /\ saves = 1
    /\ th = [t \in Threads |-> Idle]
    /\ ready = TRUE
    /\ calls = 0
    /\ faults = 0
    /\ conversation_history = <<>>      \* demo_agent.py line 14, gemini_agent.py line 18
    /\ demo_mode \in BOOLEAN            \* main.py lines 30-38
    /\ chats = MaxChats
    /\ lastCall = NoCall

ChatNext ==
    \/ \E session_id \in Sessions, message \in Messages : Chat(session_id, message)
    \/ \E session_id \in Sessions : ResetConversation(session_id)

\* requests of two sessions served by the agent
ChatSpec == ChatInit /\ [][ChatNext]_vars

(***************************************************************************)
(* Vocabulary of the properties.                                           *)
(***************************************************************************)
CallerIds == Threads

\* thread t has made a call and that call is over
Returned(t) == th[t].pc = "idle" /\ th[t].op # "none"

\* the call of thread t returned to its caller without raising
ReturnedNormally(t) == Returned(t) /\ th[t].exc = "none"

\* thread t's call ran search to its end (directly or from get_relevant_faqs)
Searched(t) == ReturnedNormally(t) /\ th[t].op \in {"search", "get_relevant_faqs"}

\* rows and entries belong together: row i is the embedding of entry i
IsPair(rows, entries) == rows = RowsOf(entries)

\* the sources hold a corpus: the FAQ file is there
HasCorpus == faqSrc.state = Ok

MinOf(a, b) == IF a < b THEN a ELSE b

ValidScores == (-(Scale * Scale))..(Scale * Scale)

(***************************************************************************)
(* C1.  Whenever a call has returned and self.index is not None, the index *)
(* has as many rows as self.faqs has entries and row i is the embedding of *)
(* self.faqs[i].                                                           *)
(***************************************************************************)
\* no call is in progress, one has been made, and the last ones returned normally
AllReturned ==
    /\ \E t \in CallerIds : Returned(t)
    /\ \A t \in CallerIds : th[t].pc = "idle" /\ th[t].exc = "none"

C1_IndexMatchesEntries ==
    (HasCorpus /\ AllReturned /\ ~index.isNone)
        => (Len(index.rows) = Len(faqs) /\ IsPair(index.rows, faqs))

(***************************************************************************)
(* C2.  A search that runs while another thread is inside build_index      *)
(* completes without raising, and the index rows and the entries it read   *)
(* belong to one pair.                                                     *)
(***************************************************************************)
C2_NoTornRead ==
    \A t \in CallerIds :
        (/\ HasCorpus
         /\ Returned(t)
         /\ th[t].op \in {"search", "get_relevant_faqs"}
         /\ th[t].overlap)
            => th[t].exc = "none" /\ IsPair(th[t].seenRows, th[t].seenFaqs)

(***************************************************************************)
(* C3.  load_index returns True only with an index whose row count is the  *)
(* number of entries loaded.                                               *)
(***************************************************************************)
C3_LoadRejectsMismatch ==
    \A t \in CallerIds :
        HasCorpus /\ ReturnedNormally(t) /\ th[t].op = "load_index" /\ th[t].ret = "True"
            => Len(index.rows) = Len(faqs)

(***************************************************************************)
(* C4.  load_index never raises, and it returns True only with an index    *)
(* artifact and an entries artifact written by the same save_index: a pair *)
(* left by an interrupted save is not loaded.                              *)
(***************************************************************************)
C4_LoadRejectsHalfWrittenPair ==
    \A t \in CallerIds :
        HasCorpus /\ Returned(t) /\ th[t].op = "load_index"
            => /\ th[t].exc = "none"
               /\ th[t].ret = "True" => th[t].loadedIndexSid = th[t].loadedFaqsSid

(***************************************************************************)
(* C5.  When load_index returns False, self.index and self.faqs are what   *)
(* they were before the call.                                              *)
(***************************************************************************)
C5_FailedLoadChangesNothing ==
    \A t \in CallerIds :
        HasCorpus /\ ReturnedNormally(t) /\ th[t].op = "load_index" /\ th[t].ret = "False"
            => index = th[t].preIndex /\ faqs = th[t].preFaqs

(***************************************************************************)
(* C6.  Of the threads inside initialize, search or get_relevant_faqs, at  *)
(* most one is executing build_index at any time.                          *)
(***************************************************************************)
C6_OneBuildAtATime ==
    HasCorpus =>
    Cardinality({t \in CallerIds :
                    /\ th[t].pc \in BuildPcs
                    /\ th[t].op \in {"initialize", "search", "get_relevant_faqs"}}) <= 1

(***************************************************************************)
(* C7.  initialize() on an engine that is Ready runs no build, writes no   *)
(* artifact and leaves self.index and self.faqs as they were.              *)
(***************************************************************************)
C7_InitializeIdempotent ==
    \A t \in CallerIds :
        HasCorpus /\ ReturnedNormally(t) /\ th[t].op = "initialize" /\ th[t].preReady
            => /\ ~th[t].built
               /\ ~th[t].wrote
               /\ index = th[t].preIndex
               /\ faqs = th[t].preFaqs

(***************************************************************************)
(* C8.  search(q, k) over a pair returns at most k results, exactly        *)
(* min(k, row count) of them when the index has rows, and no row twice.    *)
(***************************************************************************)
C8_ResultCount ==
    \A t \in CallerIds :
        Searched(t) /\ IsPair(th[t].seenRows, th[t].seenFaqs)
            => LET found == th[t].found
                   n == Len(th[t].seenRows)
               IN /\ Len(found) <= th[t].k
                  /\ n > 0 => Len(found) = MinOf(th[t].k, n)
                  /\ \A i, j \in 1..Len(found) : found[i].row = found[j].row => i = j

(***************************************************************************)
(* C9.  Every score search returns is a cosine: it lies in [-1, 1].        *)
(***************************************************************************)
C9_ScoresAreCosines ==
    \A t \in CallerIds :
        Searched(t) /\ IsPair(th[t].seenRows, th[t].seenFaqs)
            => \A i \in 1..Len(th[t].found) : th[t].found[i].score \in ValidScores

(***************************************************************************)
(* C10.  search never raises, and every result it returns is entries[row]  *)
(* for a row that is a position of the entries list, also when the entries *)
(* list is shorter than the index.                                         *)
(***************************************************************************)
C10_OutOfRangeRowsDropped ==
    \A t \in CallerIds :
        (/\ Returned(t)
         /\ th[t].op \in {"search", "get_relevant_faqs"}
         /\ Len(th[t].seenFaqs) < Len(th[t].seenRows))
            => /\ th[t].exc = "none"
               /\ \A i \in 1..Len(th[t].found) :
                     /\ th[t].found[i].row \in 0..(Len(th[t].seenFaqs) - 1)
                     /\ th[t].found[i].faq = th[t].seenFaqs[th[t].found[i].row + 1]

(***************************************************************************)
(* C11.  Round trip: when load_index returns True with the two artifacts   *)
(* of one completed save_index of a built pair, search over the loaded     *)
(* pair gives, for every query and every k, the results (entries, scores,  *)
(* order) it gave over the pair that was saved.                            *)
(***************************************************************************)
\* what search(q, k) gives over a pair, for every query and every k
SearchAll(rows, entries) ==
    [q \in Queries, k \in 1..RelevantK |->
        LET hits == index_search(rows, normalize_L2(encode(q)), k, tieBreak)
        IN [raises |-> MapRaises(hits, entries),
            results |-> IF MapRaises(hits, entries) THEN <<>> ELSE MapHits(hits, entries)]]

\* thread t's load_index returned True with both artifacts of the last completed save
LoadedLastSave(t) ==
    /\ ReturnedNormally(t) /\ th[t].op = "load_index" /\ th[t].ret = "True"
    /\ saved.sid > 0
    /\ th[t].loadedIndexSid = saved.sid /\ th[t].loadedFaqsSid = saved.sid
    /\ IsPair(saved.rows, saved.faqs)

SourceEntries ==
    (IF faqSrc.state = Ok THEN faqSrc.data ELSE <<>>) \o load_order_data(orderSrc)

\* thread t's call ran build_index and returned normally
Built(t) ==
    /\ ReturnedNormally(t)
    /\ th[t].built
    /\ th[t].op \in {"build_index", "initialize", "search", "get_relevant_faqs"}

C12_EntriesAreSourcesOnce ==
    \A t \in CallerIds :
        Built(t) => /\ faqs = SourceEntries
                    /\ \A i, j \in 1..Len(faqs) : faqs[i] = faqs[j] => i = j

(***************************************************************************)
(* C13.  When the build-then-save sequence of initialize or search fails   *)
(* in writing an artifact on an engine that was serving a pair, the caller *)
(* gets the failure and self.index and self.faqs are still the pair that   *)
(* was served before the call.                                             *)
(***************************************************************************)
\* thread t's call built a pair and then failed in save_index
SaveFailedAfterBuild(t) ==
    /\ Returned(t)
    /\ th[t].op \in {"initialize", "search", "get_relevant_faqs"}
    /\ th[t].built
    /\ th[t].exc = "OSError"

\* the engine was serving a pair when thread t's call began
ServedPairBefore(t) ==
    ~th[t].preIndex.isNone /\ IsPair(th[t].preIndex.rows, th[t].preFaqs)

C13_FailedSaveKeepsServedPair ==
    \A t \in CallerIds :
        (HasCorpus /\ SaveFailedAfterBuild(t) /\ ServedPairBefore(t))
            => (index = th[t].preIndex /\ faqs = th[t].preFaqs)

(***************************************************************************)
(* C14.  initialize, and a search that finds self.index is None, take      *)
(* artifacts that are missing, unreadable or mismatched for no persisted   *)
(* state: they return with a pair they built, or with a loaded pair whose  *)
(* index has one row per entry, and the search raises no IndexError.       *)
(***************************************************************************)
\* thread t's call began with load_index
LoadsFirst(t) ==
    \/ th[t].op = "initialize"
    \/ th[t].op \in {"search", "get_relevant_faqs"} /\ th[t].preIndex.isNone

C14_InvalidArtifactsRebuilt ==
    \A t \in CallerIds :
        /\ (HasCorpus /\ ReturnedNormally(t) /\ LoadsFirst(t) /\ ~th[t].built)
              => Len(index.rows) = Len(faqs)
        /\ (HasCorpus /\ Returned(t) /\ LoadsFirst(t) /\ th[t].op # "initialize")
              => th[t].exc # "IndexError"

(***************************************************************************)
(* C15.  Empty corpus: when neither source yields an entry, build_index    *)
(* and initialize return normally with an index of no rows, and search and *)
(* get_relevant_faqs return an empty list.                                 *)
(***************************************************************************)
EmptyCorpus == faqSrc.state = Missing /\ orderSrc.state = Missing

C15_EmptyCorpusBuilds ==
    \A t \in CallerIds :
        (/\ EmptyCorpus
         /\ Returned(t)
         /\ th[t].op \in {"build_index", "initialize", "search", "get_relevant_faqs"}
         \* the encoder took the empty batch, and no file operation failed
         /\ th[t].exc \notin {"EncodingFailure", "OSError", "PermissionError"})
            => /\ th[t].exc = "none"
               /\ index = IndexOf(<<>>)
               /\ th[t].op \in {"search", "get_relevant_faqs"} => th[t].result = <<>>

(***************************************************************************)
(* C16.  A source that is missing or cannot be read never makes a build    *)
(* fail: the first build on an engine over a corpus that is not empty      *)
(* returns normally with the entries of the sources that can be read.      *)
(***************************************************************************)
C16_SourceFailureNotFatal ==
    \A t \in CallerIds :
        (/\ ~EmptyCorpus
         /\ Returned(t)
         /\ th[t].op = "build_index"
         /\ th[t].preFaqs = <<>>)
            => th[t].exc = "none" /\ faqs \in {SourceEntries, load_order_data(orderSrc),
                                               load_faqs(<<>>, faqSrc), <<>>}

(***************************************************************************)
(* C17.  Threshold monotonicity: over the results of one search, the       *)
(* entries get_relevant_faqs returns for a threshold are among those it    *)
(* returns for any lower threshold; every entry returned has a score of at *)
(* least the threshold; and the list is empty, with no error, when the     *)
(* threshold is above every score.                                         *)
(***************************************************************************)
\* thresholds from -1.0 to 1.1, in tenths
AllThresholds == (-10)..11

\* the entries of a list of relevant entries, each with its row
Returns(relevant) == {[faq |-> relevant[i].faq, row |-> relevant[i].row] : i \in 1..Len(relevant)}

Ordered(list, Score(_)) ==
    \A i, j \in 1..Len(list) :
        i < j => /\ Score(list[i]) >= Score(list[j])
                 /\ Score(list[i]) = Score(list[j]) => list[i].row <= list[j].row

ScoreOfResult(r) == r.score
ScoreOfRelevant(r) == r.similarity_score

C18_BestFirstLowRowFirst ==
    \A t \in CallerIds :
        (Searched(t) /\ IsPair(th[t].seenRows, th[t].seenFaqs))
            => /\ Ordered(th[t].found, ScoreOfResult)
               /\ th[t].op = "get_relevant_faqs" => Ordered(th[t].result, ScoreOfRelevant)

(***************************************************************************)
(* C19.  For every index_path the entries are written to a path other than *)
(* index_path, the one load_index reads them from, and after save_index    *)
(* has returned the file at index_path is not the pickled entries.         *)
(***************************************************************************)
C19_EntriesBesideIndex ==
    \A t \in CallerIds :
        (HasCorpus /\ ReturnedNormally(t) /\ th[t].op = "save_index" /\ th[t].wrote)
            => /\ faq_data_path(index_path) # index_path
               /\ diskIndex.kind # "pickle"

(***************************************************************************)
(* C20.  On a Ready engine search and get_relevant_faqs are read-only:     *)
(* when the call is over self.index, the list self.faqs and every stored   *)
(* entry are what they were before it, no build has run and no artifact    *)
(* has been written.                                                       *)
(***************************************************************************)
\* thread t's search or get_relevant_faqs began on a Ready engine and is over
SearchedWhenReady(t) ==
    /\ Returned(t)
    /\ th[t].op \in {"search", "get_relevant_faqs"}
    /\ th[t].preReady

C20_SearchIsReadOnly ==
    \A t \in CallerIds :
        SearchedWhenReady(t) => /\ index = th[t].preIndex
                                /\ faqs = th[t].preFaqs
                                /\ ~th[t].built
                                /\ ~th[t].wrote

\* get_relevant_faqs has returned entries with their scores on a Ready engine
C20_Witness ==
    \E t \in CallerIds :
        /\ SearchedWhenReady(t)
        /\ th[t].op = "get_relevant_faqs"
        /\ th[t].exc = "none"
        /\ th[t].result # <<>>

(***************************************************************************)
(* C21.  Conversation state is per session: a reset for a session removes  *)
(* that session's turns from the history and no others, and the context a  *)
(* chat is answered with is made of the turns of its own session, whatever *)
(* the other sessions have said or reset.                                  *)
(***************************************************************************)
\* the turns of a history that one session appended
OwnTurns(history, session_id) ==
    SelectSeq(history, LAMBDA turn : turn.session_id = session_id)

\* the turns of a history that the other sessions appended
OtherTurns(history, session_id) ==
    SelectSeq(history, LAMBDA turn : turn.session_id # session_id)

C21_HistoryPerSession ==
    /\ lastCall.op = "reset"
          => conversation_history = OtherTurns(lastCall.before, lastCall.session_id)
    /\ lastCall.op = "chat"
          => /\ OtherTurns(conversation_history, lastCall.session_id)
                    = OtherTurns(lastCall.before, lastCall.session_id)
             /\ \A i \in 1..Len(lastCall.context) :
                    lastCall.context[i].session_id = lastCall.session_id

====
